---- MODULE Spec2Model ----
(***************************************************************************)
(* Scrape orchestration engine of riven: program/scrapers/__init__.py,     *)
(* class Scraping.  The module models run (submit), scrape (fan-out and    *)
(* merge over one thread per initialized service), can_we_scrape and       *)
(* should_submit (backoff gate), yield_incomplete_children and             *)
(* partial_state (hierarchy traversals).                                   *)
(*                                                                         *)
(* Time is in seconds, as in should_submit (total_seconds()).              *)
(***************************************************************************)
EXTENDS Integers, Sequences, FiniteSets, TLC

VARIABLES
    now,              \* datetime.now(): the wall clock, in seconds
    instants,         \* the readings the wall clock takes in this behaviour
    settings,         \* settings_manager.settings.scraping: after_2, after_5, after_10
    items,            \* the media items: id -> MediaItem fields
    initialized,      \* service -> service.initialized
    pc,               \* position of the calling thread inside run / scrape
    cur,              \* the item argument of the run call in progress
    gate_evals,       \* can_we_scrape evaluations made by the run call in progress
    before,           \* items[cur] as it was when the run call began
    svc,              \* index of the launch loop (line 99) over self.services
    threads,          \* scrape's local `threads`: the started services, in order
    joined,           \* number of threads the join loop (line 105) has joined
    tpc,              \* service -> position of its thread inside run_service
    queried,          \* service -> number of service.run calls in this scrape
    service_results,  \* service -> run_service's local `service_results`
    reg,              \* service -> value of total_results loaded by `+=`
    results,          \* scrape's local `results` (shared dict)
    total_results,    \* scrape's local `total_results` (shared counter)
    results_lock,     \* owner of scrape's `results_lock`, or Free
    sorted_streams,   \* run's local: the ordered mapping scrape returned, as a sequence
    ret               \* outcome of the last call made by the caller

vars == <<now, instants, settings, items, initialized, pc, cur, gate_evals, before, svc,
          threads, joined, tpc, queried, service_results, reg, results,
          total_results, results_lock, sorted_streams, ret>>

scrapeVars == <<svc, threads, joined, tpc, queried, service_results, reg,
                results, total_results, results_lock>>

-----------------------------------------------------------------------------
(* Bounds of the model *)

\* the clock readings of Spec lie on a grid of 300 s, k = 0..MaxGrid
MaxGrid == 2
\* settings.after_2 / after_5 / after_10 range over 1..MaxHours (hours)
MaxHours == 2
\* run is not entered once scraped_times has reached MaxScrapedTimes
MaxScrapedTimes == 12

-----------------------------------------------------------------------------
(* Values *)

None == -1
Free == "free"

\* self.services, in registration order (the first three of the ten)
ServiceNames == <<"Annatar", "Torrentio", "Knightcrawler">>
Services == {ServiceNames[i] : i \in 1..Len(ServiceNames)}

\* infohashes the services may return
Keys == {"X", "Y"}

EmptyDict == <<>>

\* the item tree: a Show owning two Seasons of two Episodes each, and a Movie
Ids == {"show", "s1", "s2", "e11", "e12", "e21", "e22", "movie"}

TypeOf(id) ==
    CASE id = "show" -> "Show"
      [] id \in {"s1", "s2"} -> "Season"
      [] id = "movie" -> "Movie"
      [] OTHER -> "Episode"

\* item.seasons
seasons(id) == IF id = "show" THEN <<"s1", "s2">> ELSE <<>>

\* item.episodes
episodes(id) ==
    CASE id = "s1" -> <<"e11", "e12">>
      [] id = "s2" -> <<"e21", "e22">>
      [] OTHER -> <<>>

Range(s) == {s[i] : i \in 1..Len(s)}

-----------------------------------------------------------------------------
(* should_submit and can_we_scrape *)

\* lines 140-147: the interval of the tier of scraped_times, in seconds
scrape_time(item) ==
    IF item.scraped_times >= 2 /\ item.scraped_times <= 5
        THEN settings.after_2 * 60 * 60
    ELSE IF item.scraped_times > 5 /\ item.scraped_times <= 10
        THEN settings.after_5 * 60 * 60
    ELSE IF item.scraped_times > 10
        THEN settings.after_10 * 60 * 60
    ELSE 5 * 60

\* faulty variant of should_submit: the comparison with the interval is turned
\* round
should_submit_Less(item) ==
    \/ item.scraped_at = None
    \/ (now - item.scraped_at) < scrape_time(item)

\* faulty variant of should_submit: an elapsed time equal to the interval is
\* enough
should_submit_AtLeast(item) ==
    \/ item.scraped_at = None
    \/ (now - item.scraped_at) >= scrape_time(item)

\* lines 149-152
should_submit(item) ==
    \/ item.scraped_at = None
    \/ (now - item.scraped_at) > scrape_time(item)

\* faulty variant of can_we_scrape: the release check of line 128 is missing
can_we_scrape_Unreleased(item) ==
    IF ~should_submit(item) THEN FALSE
    ELSE TRUE

\* lines 126-134
can_we_scrape(item) ==
    IF ~item.is_released THEN FALSE
    ELSE IF ~should_submit(item) THEN FALSE
    ELSE TRUE

-----------------------------------------------------------------------------
(* Values returned to the caller *)

RList(s) == [tag |-> "list", list |-> s, flag |-> FALSE]
RNone == [tag |-> "None", list |-> <<>>, flag |-> FALSE]
RBool(b) == [tag |-> "bool", list |-> <<>>, flag |-> b]
RItem(id) == [tag |-> "item", list |-> <<id>>, flag |-> FALSE]
RRaise == [tag |-> "raise", list |-> <<>>, flag |-> FALSE]

NoCall == [op |-> "none", item |-> "movie", val |-> RNone]

-----------------------------------------------------------------------------
(* Hierarchy traversals *)

\* faulty variant of Incomplete: should_submit is not asked
Incomplete_NoBackoff(id) ==
    /\ items[id].state # "Completed"
    /\ items[id].is_released

\* the condition of the list comprehensions of lines 49, 51 and 58
Incomplete(id) ==
    /\ items[id].state # "Completed"
    /\ items[id].is_released
    /\ should_submit(items[id])

\* lines 47-52
yield_incomplete_children(id) ==
    IF TypeOf(id) = "Season" THEN RList(SelectSeq(episodes(id), Incomplete))
    ELSE IF TypeOf(id) = "Show" THEN RList(SelectSeq(seasons(id), Incomplete))
    ELSE RNone

\* faulty variant of AllEpisodesPending: any() in place of all()
AllEpisodesPending_Some(s) ==
    \E e \in Range(episodes(s)) :
        items[e].is_released /\ items[e].state # "Completed"

\* line 61
AllEpisodesPending(s) ==
    \A e \in Range(episodes(s)) :
        items[e].is_released /\ items[e].state # "Completed"

\* line 64
ReleasedIncomplete(e) == items[e].is_released /\ items[e].state # "Completed"

\* line 67
Released(e) == items[e].is_released

\* lines 59-65: the loop over sres
RECURSIVE SeasonLoop(_, _)
SeasonLoop(sres, i) ==
    IF i > Len(sres) THEN <<>>
    ELSE (IF AllEpisodesPending(sres[i]) THEN <<sres[i]>>
          ELSE SelectSeq(episodes(sres[i]), ReleasedIncomplete))
         \o SeasonLoop(sres, i + 1)

\* lines 54-68
partial_state(id) ==
    IF items[id].last_state # "PartiallyCompleted" \/ can_we_scrape(items[id])
        THEN RBool(FALSE)
    ELSE IF TypeOf(id) = "Show"
        THEN RList(SeasonLoop(SelectSeq(seasons(id), Incomplete), 1))
    ELSE IF TypeOf(id) = "Season"
        THEN RList(SelectSeq(episodes(id), Released))
    ELSE RItem(id)

-----------------------------------------------------------------------------
(* Dictionaries, streams and the ranker *)

\* len(d)
DictLen(d) == Cardinality(DOMAIN d)

\* faulty variant of DictUpdate: a key already present keeps its value
DictUpdate_KeepFirst(d, e) ==
    [k \in (DOMAIN d) \cup (DOMAIN e) |-> IF k \in DOMAIN d THEN d[k] ELSE e[k]]

\* d.update(e)
DictUpdate(d, e) ==
    [k \in (DOMAIN d) \cup (DOMAIN e) |-> IF k \in DOMAIN e THEN e[k] ELSE d[k]]

\* the sets of infohashes service s may find
Finds(s) ==
    CASE s = "Annatar" -> {{}, {"X"}}
      [] s = "Torrentio" -> {{"X"}, {"X", "Y"}}
      [] OTHER -> {{"X"}, {"Y"}}

\* the mappings service s may return from service.run: each infohash it finds,
\* with the raw title s gives it
Offers(s) == {[k \in K |-> s] : K \in Finds(s)}

\* Stream.__eq__ (program.media.stream): streams are equal when their
\* infohashes are
StreamEq(a, b) == a.infohash = b.infohash

\* faulty variant of StreamIn: streams are compared field by field
StreamIn_Exact(stream, streams) ==
    \E i \in 1..Len(streams) : streams[i] = stream

\* `stream in streams`
StreamIn(stream, streams) ==
    \E i \in 1..Len(streams) : StreamEq(streams[i], stream)

\* sequences of length n over S without repetition
RECURSIVE Arrangements(_, _)
Arrangements(S, n) ==
    IF n = 0 THEN {<<>>}
    ELSE UNION {{Append(a, x) : x \in S \ Range(a)} : a \in Arrangements(S, n - 1)}

\* _parse_results (program.scrapers.shared): an ordered mapping
\* infohash -> Stream over some of the merged infohashes, in the ranker's order
ParseResults(res) ==
    LET orders == UNION {Arrangements(DOMAIN res, n) : n \in 0..DictLen(res)}
    IN  {[i \in 1..Len(o) |-> [infohash |-> o[i], raw_title |-> res[o[i]]]] : o \in orders}

\* faulty variant of AppendNew: every ranked stream is appended, the membership
\* test of line 75 is missing
AppendNew_NoCheck(streams, sorted, i) ==
    streams \o SubSeq(sorted, i, Len(sorted))

\* faulty variant of AppendNew: a new stream is put in front of the others
RECURSIVE AppendNew_Prepend(_, _, _)
AppendNew_Prepend(streams, sorted, i) ==
    IF i > Len(sorted) THEN streams
    ELSE AppendNew_Prepend(IF ~StreamIn(sorted[i], streams)
                               THEN <<sorted[i]>> \o streams
                               ELSE streams,
                           sorted, i + 1)

\* lines 74-76
RECURSIVE AppendNew(_, _, _)
AppendNew(streams, sorted, i) ==
    IF i > Len(sorted) THEN streams
    ELSE AppendNew(IF ~StreamIn(sorted[i], streams)
                       THEN Append(streams, sorted[i])
                       ELSE streams,
                   sorted, i + 1)

-----------------------------------------------------------------------------
(* run and scrape: the calling thread *)

\* the locals of scrape, lines 87-90, as a call of scrape finds them (and as
\* its return leaves them)
ScrapeLocals ==
    /\ svc' = 1
    /\ threads' = <<>>
    /\ joined' = 0
    /\ tpc' = [s \in Services |-> "new"]
    /\ queried' = [s \in Services |-> 0]
    /\ service_results' = [s \in Services |-> EmptyDict]
    /\ reg' = [s \in Services |-> 0]
    /\ results' = EmptyDict
    /\ total_results' = 0
    /\ results_lock' = Free

\* lines 80-83: what run yields
Yield(id, its) ==
    [op |-> "run", item |-> id,
     val |-> [tag |-> "item", list |-> <<id>>, flag |-> its[id].streams = <<>>]]

\* line 72, the gate passed: run enters scrape
RunEnter(id) ==
    /\ pc = "idle"
    /\ items[id].scraped_times < MaxScrapedTimes
    /\ can_we_scrape(items[id])
    /\ pc' = "launch"
    /\ cur' = id
    /\ gate_evals' = 1
    /\ before' = items[id]
    /\ ScrapeLocals
    /\ sorted_streams' = <<>>
    /\ ret' = NoCall
    /\ UNCHANGED <<now, instants, settings, items, initialized>>

\* line 72, the gate failed: lines 80-83 only
RunSkip(id) ==
    /\ pc = "idle"
    /\ ~can_we_scrape(items[id])
    /\ cur' = id
    /\ gate_evals' = 1
    /\ before' = items[id]
    /\ ret' = Yield(id, items)
    /\ sorted_streams' = <<>>
    /\ UNCHANGED <<now, instants, settings, items, initialized, pc>>
    /\ UNCHANGED scrapeVars

\* faulty variant of Launch: a thread is started for every service
Launch_All ==
    /\ pc = "launch"
    /\ LET s == ServiceNames[svc] IN
        /\ threads' = Append(threads, s)
        /\ tpc' = [tpc EXCEPT ![s] = "run"]
        /\ queried' = [queried EXCEPT ![s] = @ + 1]
        /\ svc' = svc + 1
        /\ pc' = IF svc = Len(ServiceNames) THEN "join" ELSE "launch"
    /\ UNCHANGED <<now, instants, settings, items, initialized, cur, gate_evals, before,
                   joined, service_results, reg, results, total_results,
                   results_lock, sorted_streams, ret>>

\* lines 99-103: one iteration of the loop over self.services
Launch ==
    /\ pc = "launch"
    /\ LET s == ServiceNames[svc] IN
        /\ IF initialized[s]
              THEN /\ threads' = Append(threads, s)
                   /\ tpc' = [tpc EXCEPT ![s] = "run"]
                   /\ queried' = [queried EXCEPT ![s] = @ + 1]
              ELSE UNCHANGED <<threads, tpc, queried>>
        /\ svc' = svc + 1
        /\ pc' = IF svc = Len(ServiceNames) THEN "join" ELSE "launch"
    /\ UNCHANGED <<now, instants, settings, items, initialized, cur, gate_evals, before,
                   joined, service_results, reg, results, total_results,
                   results_lock, sorted_streams, ret>>

\* faulty variant of Finished: join returns for any started thread
Finished_Started(s) == tpc[s] # "new"

\* is_alive() is false: the thread ran to its end or died of an exception
Finished(s) == tpc[s] \in {"done", "dead"}

\* lines 105-106: thread.join() of the next thread returns
Join ==
    /\ pc = "join"
    /\ joined < Len(threads)
    /\ Finished(threads[joined + 1])
    /\ joined' = joined + 1
    /\ UNCHANGED <<now, instants, settings, items, initialized, pc, cur, gate_evals,
                   before, svc, threads, tpc, queried, service_results, reg,
                   results, total_results, results_lock, sorted_streams, ret>>

\* lines 108-109: the number of duplicate hashes logged
duplicates == total_results - DictLen(results)

\* lines 106-111: the join loop is over, _parse_results returns
Rank ==
    /\ pc = "join"
    /\ joined = Len(threads)
    /\ \E out \in ParseResults(results) : sorted_streams' = out
    /\ pc' = "attach"
    /\ UNCHANGED <<now, instants, settings, items, initialized, cur, gate_evals, before,
                   svc, threads, joined, tpc, queried, service_results, reg,
                   results, total_results, results_lock, ret>>

\* faulty variant of RankRaise: the attempt is recorded although ranking failed
RankRaise_Advance ==
    /\ pc = "join"
    /\ joined = Len(threads)
    /\ pc' = "idle"
    /\ ret' = [op |-> "run", item |-> cur, val |-> RRaise]
    /\ items' = [items EXCEPT ![cur].scraped_at = now,
                              ![cur].scraped_times = @ + 1]
    /\ ScrapeLocals
    /\ UNCHANGED <<now, instants, settings, initialized, cur, gate_evals,
                   before, sorted_streams>>

\* lines 106-111: the join loop is over, _parse_results raises; the exception
\* leaves scrape and run
RankRaise ==
    /\ pc = "join"
    /\ joined = Len(threads)
    /\ pc' = "idle"
    /\ ret' = [op |-> "run", item |-> cur, val |-> RRaise]
    /\ ScrapeLocals
    /\ UNCHANGED <<now, instants, settings, items, initialized, cur, gate_evals,
                   before, sorted_streams>>

\* faulty variant of Attached: the count of scrapes is set, not incremented
Attached_Reset(item) ==
    [item EXCEPT !.streams = AppendNew(item.streams, sorted_streams, 1),
                 !.scraped_at = now,
                 !.scraped_times = 1]

\* faulty variant of Attached: the attempt is recorded only when the scrape
\* found streams
Attached_OnlyIfFound(item) ==
    IF sorted_streams = <<>> THEN item
    ELSE [item EXCEPT !.streams = AppendNew(item.streams, sorted_streams, 1),
                      !.scraped_at = now,
                      !.scraped_times = item.scraped_times + 1]

\* lines 74-78: the item after the streams are attached
Attached(item) ==
    [item EXCEPT !.streams = AppendNew(item.streams, sorted_streams, 1),
                 !.scraped_at = now,
                 !.scraped_times = item.scraped_times + 1]

\* lines 73-83: scrape has returned
Attach ==
    /\ pc = "attach"
    /\ items' = [items EXCEPT ![cur] = Attached(items[cur])]
    /\ pc' = "idle"
    /\ ret' = Yield(cur, items')
    /\ ScrapeLocals
    /\ UNCHANGED <<now, instants, settings, initialized, cur, gate_evals, before,
                   sorted_streams>>

-----------------------------------------------------------------------------
(* run_service: the thread of service s *)

mainVars == <<now, instants, settings, items, initialized, pc, cur, gate_evals, before,
              svc, threads, joined, queried, sorted_streams, ret>>

\* line 94: service.run(item) returns a mapping
QueryReturn(s) ==
    /\ tpc[s] = "run"
    /\ \E r \in Offers(s) : service_results' = [service_results EXCEPT ![s] = r]
    /\ tpc' = [tpc EXCEPT ![s] = "lock"]
    /\ UNCHANGED mainVars
    /\ UNCHANGED <<reg, results, total_results, results_lock>>

\* faulty variant of QueryRaise: the exception of the service reaches the
\* caller of scrape
QueryRaise_Abort(s) ==
    /\ tpc[s] = "run"
    /\ pc' = "idle"
    /\ ret' = [op |-> "run", item |-> cur, val |-> RRaise]
    /\ ScrapeLocals
    /\ UNCHANGED <<now, instants, settings, items, initialized, cur, gate_evals,
                   before, sorted_streams>>

\* line 94: service.run(item) raises; the exception ends the thread
QueryRaise(s) ==
    /\ tpc[s] = "run"
    /\ tpc' = [tpc EXCEPT ![s] = "dead"]
    /\ UNCHANGED mainVars
    /\ UNCHANGED <<service_results, reg, results, total_results, results_lock>>

\* faulty variant of CanAcquire: the lock excludes nobody
CanAcquire_Always(s) == TRUE

\* results_lock.acquire() can return
CanAcquire(s) == results_lock = Free

\* line 95: with results_lock
Acquire(s) ==
    /\ tpc[s] = "lock"
    /\ CanAcquire(s)
    /\ results_lock' = s
    /\ tpc' = [tpc EXCEPT ![s] = "update"]
    /\ UNCHANGED mainVars
    /\ UNCHANGED <<service_results, reg, results, total_results>>

\* line 96
Update(s) ==
    /\ tpc[s] = "update"
    /\ results' = DictUpdate(results, service_results[s])
    /\ tpc' = [tpc EXCEPT ![s] = "load"]
    /\ UNCHANGED mainVars
    /\ UNCHANGED <<service_results, reg, total_results, results_lock>>

\* line 97: total_results += ..., the load of total_results
Load(s) ==
    /\ tpc[s] = "load"
    /\ reg' = [reg EXCEPT ![s] = total_results]
    /\ tpc' = [tpc EXCEPT ![s] = "store"]
    /\ UNCHANGED mainVars
    /\ UNCHANGED <<service_results, results, total_results, results_lock>>

\* line 97: total_results += ..., the store; then the with block is left
Store(s) ==
    /\ tpc[s] = "store"
    /\ total_results' = reg[s] + DictLen(service_results[s])
    /\ results_lock' = Free
    /\ tpc' = [tpc EXCEPT ![s] = "done"]
    /\ UNCHANGED mainVars
    /\ UNCHANGED <<service_results, reg, results>>

-----------------------------------------------------------------------------
(* The caller's other calls, and the clock *)

callVars == <<now, instants, settings, items, initialized, pc, cur, gate_evals,
              before, sorted_streams>>

CallShouldSubmit(id) ==
    /\ pc = "idle"
    /\ ret' = [op |-> "should_submit", item |-> id,
               val |-> RBool(should_submit(items[id]))]
    /\ UNCHANGED callVars
    /\ UNCHANGED scrapeVars

\* faulty variant of CallCanWeScrape: the check stamps the item
CallCanWeScrape_Stamp(id) ==
    /\ pc = "idle"
    /\ ret' = [op |-> "can_we_scrape", item |-> id,
               val |-> RBool(can_we_scrape(items[id]))]
    /\ items' = [items EXCEPT ![id].scraped_at = now]
    /\ UNCHANGED <<now, instants, settings, initialized, pc, cur, gate_evals,
                   before, sorted_streams>>
    /\ UNCHANGED scrapeVars

CallCanWeScrape(id) ==
    /\ pc = "idle"
    /\ ret' = [op |-> "can_we_scrape", item |-> id,
               val |-> RBool(can_we_scrape(items[id]))]
    /\ UNCHANGED callVars
    /\ UNCHANGED scrapeVars

CallYieldIncompleteChildren(id) ==
    /\ pc = "idle"
    /\ ret' = [op |-> "yield_incomplete_children", item |-> id,
               val |-> yield_incomplete_children(id)]
    /\ UNCHANGED callVars
    /\ UNCHANGED scrapeVars

CallPartialState(id) ==
    /\ pc = "idle"
    /\ ret' = [op |-> "partial_state", item |-> id, val |-> partial_state(id)]
    /\ UNCHANGED callVars
    /\ UNCHANGED scrapeVars

\* time passes
Tick ==
    /\ \E t \in instants : t > now /\ now' = t
    /\ UNCHANGED <<instants, settings, items, initialized, pc, cur, gate_evals,
                   before, sorted_streams, ret>>
    /\ UNCHANGED scrapeVars

-----------------------------------------------------------------------------
(* Next-state relation *)

\* the items the caller submits
RunTargets == {"movie", "e22"}

Next ==
    \/ \E id \in RunTargets : RunEnter(id) \/ RunSkip(id)
    \/ Launch
    \/ Join
    \/ Rank
    \/ RankRaise
    \/ Attach
    \/ \E s \in Services :
        \/ QueryReturn(s)
        \/ QueryRaise(s)
        \/ Acquire(s)
        \/ Update(s)
        \/ Load(s)
        \/ Store(s)
    \/ \E id \in Ids :
        \/ CallShouldSubmit(id)
        \/ CallCanWeScrape(id)
        \/ CallYieldIncompleteChildren(id)
        \/ CallPartialState(id)
    \/ Tick

-----------------------------------------------------------------------------
(* Initial states *)

NewItem ==
    [state |-> "Indexed", last_state |-> "Indexed", is_released |-> TRUE,
     scraped_at |-> None, scraped_times |-> 0, streams |-> <<>>]

\* no run call in progress
InitScrape ==
    /\ pc = "idle"
    /\ cur = "movie"
    /\ gate_evals = 0
    /\ before = NewItem
    /\ svc = 1
    /\ threads = <<>>
    /\ joined = 0
    /\ tpc = [s \in Services |-> "new"]
    /\ queried = [s \in Services |-> 0]
    /\ service_results = [s \in Services |-> EmptyDict]
    /\ reg = [s \in Services |-> 0]
    /\ results = EmptyDict
    /\ total_results = 0
    /\ results_lock = Free
    /\ sorted_streams = <<>>
    /\ ret = NoCall

\* A Show scraped once, at time 0, and partially completed: Season s1 is
\* wholly pending, Season s2 has one Episode completed and one not released.
\* The Movie is m.
Library(m) ==
    [id \in Ids |->
        CASE id = "show" ->
               [NewItem EXCEPT !.state = "PartiallyCompleted",
                               !.last_state = "PartiallyCompleted",
                               !.scraped_at = 0, !.scraped_times = 1]
          [] id = "e21" -> [NewItem EXCEPT !.state = "Completed",
                                           !.last_state = "Completed"]
          [] id = "e22" -> [NewItem EXCEPT !.is_released = FALSE]
          [] id = "movie" -> m
          [] OTHER -> NewItem]

\* the clock readings of Spec: around the multiples of the base interval
Grid == {g * 300 + o : g \in 0..MaxGrid, o \in {0, 1}}

\* the settings: any whole numbers of hours up to MaxHours
Settings == [after_2 : 1..MaxHours, after_5 : 1..MaxHours, after_10 : 1..MaxHours]

\* Spec: a new Movie is submitted, again and again, while two of the three
\* services are initialized
Init ==
    /\ now = 0
    /\ instants = Grid
    /\ settings = [after_2 |-> 1, after_5 |-> 1, after_10 |-> 1]
    /\ items = Library(NewItem)
    /\ initialized = [s \in Services |-> s # "Annatar"]
    /\ InitScrape

Spec == Init /\ [][Next]_vars

\* SpecFanOut: one scrape of a Movie already scraped twice (its next tier is
\* hours away), with any set of the three services initialized
InitFanOut ==
    /\ now = 0
    /\ instants = {0, 1}
    /\ settings = [after_2 |-> 1, after_5 |-> 1, after_10 |-> 1]
    /\ items = Library([NewItem EXCEPT !.scraped_times = 2])
    /\ initialized \in [Services -> BOOLEAN]
    /\ InitScrape

SpecFanOut == InitFanOut /\ [][Next]_vars

\* the clock readings of SpecBackoff: around the base interval and around
\* each whole number of hours up to MaxHours
Boundaries ==
    {0, 299, 300, 301}
        \cup {h * 3600 + o : h \in 1..MaxHours, o \in {0 - 60, 0 - 1, 0, 1, 60}}

\* SpecBackoff: should_submit and can_we_scrape are called, as time passes, on
\* a Movie with any count of scrapes, scraped at time 0 or never, under any
\* settings
InitBackoff ==
    /\ now = 0
    /\ instants = Boundaries
    /\ settings \in Settings
    /\ \E n \in 0..MaxScrapedTimes, at \in {None, 0} :
          items = Library([NewItem EXCEPT !.scraped_times = n, !.scraped_at = at])
    /\ initialized = [s \in Services |-> TRUE]
    /\ InitScrape

NextBackoff ==
    \/ \E id \in Ids :
        \/ CallShouldSubmit(id)
        \/ CallCanWeScrape(id)
    \/ Tick

SpecBackoff == InitBackoff /\ [][NextBackoff]_vars

\* an item scraped once, at time 0
ScrapedOnce == [NewItem EXCEPT !.scraped_at = 0, !.scraped_times = 1]

\* the Episodes of SpecWalker: never scraped, completed by a scrape, not yet
\* released, or scraped once without success
EpisodeProfiles ==
    {NewItem,
     [ScrapedOnce EXCEPT !.state = "Completed", !.last_state = "Completed"],
     [NewItem EXCEPT !.is_released = FALSE],
     ScrapedOnce}

\* the state of a Season whose Episodes are e1 and e2
SeasonState(e1, e2) ==
    IF e1.state = "Completed" /\ e2.state = "Completed" THEN "Completed"
    ELSE IF e1.state = "Completed" \/ e2.state = "Completed"
        THEN "PartiallyCompleted"
    ELSE "Indexed"

\* the Seasons of SpecWalker over Episodes e1 and e2: released or not,
\* never scraped or scraped once
SeasonProfiles(e1, e2) ==
    {[NewItem EXCEPT !.state = SeasonState(e1, e2),
                     !.last_state = SeasonState(e1, e2),
                     !.is_released = r,
                     !.scraped_at = at,
                     !.scraped_times = IF at = None THEN 0 ELSE 1] :
        r \in BOOLEAN, at \in {None, 0}}

\* the Shows of SpecWalker: scraped once, partially completed or not
ShowProfiles ==
    {[ScrapedOnce EXCEPT !.state = st, !.last_state = st] :
        st \in {"PartiallyCompleted", "Indexed"}}

\* the clock readings of SpecWalker: the time of the last scrapes, and past
\* the base interval
WalkerInstants == {0, 301}

\* SpecWalker: yield_incomplete_children and partial_state are called, as
\* time passes, on the items of a Show of two Seasons of two Episodes each
InitWalker ==
    /\ now = 0
    /\ instants = WalkerInstants
    /\ settings = [after_2 |-> 1, after_5 |-> 1, after_10 |-> 1]
    /\ \E sh \in ShowProfiles,
          e11 \in {NewItem, ScrapedOnce}, e12 \in EpisodeProfiles,
          e21 \in EpisodeProfiles, e22 \in EpisodeProfiles :
          \E s1 \in SeasonProfiles(e11, e12), s2 \in SeasonProfiles(e21, e22) :
              items = [id \in Ids |->
                          CASE id = "show" -> sh
                            [] id = "s1" -> s1
                            [] id = "s2" -> s2
                            [] id = "e11" -> e11
                            [] id = "e12" -> e12
                            [] id = "e21" -> e21
                            [] id = "e22" -> e22
                            [] OTHER -> NewItem]
    /\ initialized = [s \in Services |-> TRUE]
    /\ InitScrape

NextWalker ==
    \/ \E id \in Ids :
        \/ CallYieldIncompleteChildren(id)
        \/ CallPartialState(id)
    \/ Tick

SpecWalker == InitWalker /\ [][NextWalker]_vars

\* the fairness of the threads: a started thread runs on, its service.run
\* returns or raises, and the calling thread runs on
ThreadStep(s) ==
    \/ QueryReturn(s)
    \/ QueryRaise(s)
    \/ Acquire(s)
    \/ Update(s)
    \/ Load(s)
    \/ Store(s)

MainStep == Launch \/ Join \/ Rank \/ RankRaise \/ Attach

Fairness ==
    /\ WF_vars(MainStep)
    /\ \A s \in Services : WF_vars(ThreadStep(s))

FairSpecFanOut == InitFanOut /\ [][Next]_vars /\ Fairness

-----------------------------------------------------------------------------
(* Properties *)

\* the infohashes offered by the services in this scrape
Offered == UNION {DOMAIN service_results[s] : s \in Services}

\* the number of key-value pairs returned by the services of S in this scrape
RECURSIVE TotalOffered(_)
TotalOffered(S) ==
    IF S = {} THEN 0
    ELSE LET s == CHOOSE x \in S : TRUE
         IN  Cardinality(DOMAIN service_results[s]) + TotalOffered(S \ {s})

\* no thread of this scrape is between its start and its end
NoneRunning == \A s \in Services : tpc[s] \in {"new", "done", "dead"}

\* the positions inside the with block of lines 95-97
InCriticalSection(s) == tpc[s] \in {"update", "load", "store"}

\* C1: after any sequence of run calls, no item's streams hold two entries
\* with the same infohash.
StreamsUnique ==
    \A id \in Ids :
        \A i, j \in 1..Len(items[id].streams) :
            i # j => items[id].streams[i].infohash # items[id].streams[j].infohash

\* C1 witness: a second run of the Movie was handed a stream whose infohash
\* the Movie already had, and has attached its streams.
StreamsUniqueWitness ==
    /\ pc = "idle"
    /\ ret.op = "run"
    /\ ret.val.tag = "item"
    /\ cur = "movie"
    /\ items[cur].scraped_times = 2
    /\ \E i \in 1..Len(sorted_streams), j \in 1..Len(before.streams) :
          sorted_streams[i].infohash = before.streams[j].infohash

\* C2: once every thread of a scrape has ended, results has exactly the
\* infohashes offered by any service, total_results is the sum of the sizes
\* of the mappings the services returned, and the logged number of duplicates
\* is that sum minus the number of distinct infohashes.
MergeComplete ==
    (pc \in {"launch", "join", "attach"} /\ NoneRunning) =>
        /\ DOMAIN results = Offered
        /\ total_results = TotalOffered(Services)
        /\ duplicates = TotalOffered(Services) - Cardinality(Offered)

\* C2 witness: two services each returned one result under "X"; after the
\* join results has one entry, for "X", and one duplicate is counted.
MergeCompleteWitness ==
    /\ pc = "join"
    /\ joined = Len(threads)
    /\ DOMAIN service_results["Annatar"] = {"X"}
    /\ DOMAIN service_results["Torrentio"] = {"X"}
    /\ tpc["Knightcrawler"] \in {"new", "dead"}
    /\ DOMAIN results = {"X"}
    /\ total_results = 2
    /\ duplicates = 1

\* C3: the step that leaves the join loop (and invokes _parse_results) is taken
\* only when every initialized service's thread was started and has ended.
Barrier ==
    [][(pc = "join" /\ pc' # "join") =>
          \A s \in Services :
              /\ initialized[s] => tpc[s] \in {"done", "dead"}
              /\ ~initialized[s] => tpc[s] = "new"]_vars

\* C3 witness: three threads were started and _parse_results has returned.
BarrierWitness ==
    /\ pc = "attach"
    /\ Len(threads) = 3
    /\ \A s \in Services : tpc[s] = "done"
    /\ sorted_streams # <<>>

\* C4: at most one thread is inside the with block, the lock is owned exactly
\* by the thread inside it, and never by a thread whose service.run is still
\* in progress.
MutualExclusion ==
    /\ \A s, t \in Services : InCriticalSection(s) /\ InCriticalSection(t) => s = t
    /\ \A s \in Services : InCriticalSection(s) <=> results_lock = s
    /\ \A s \in Services : tpc[s] = "run" => results_lock # s

\* C4 witness: one thread is inside the with block, a second waits for the
\* lock, and the query of a third is still in progress.
MutualExclusionWitness ==
    \E s, t, u \in Services :
        /\ InCriticalSection(s)
        /\ tpc[t] = "lock"
        /\ tpc[u] = "run"

\* C5: an exception of service.run ends its thread only: the calling thread,
\* results and total_results are left alone; no exception reaches run's caller
\* before the join loop is over (the only one is that of _parse_results); what
\* scrape hands to _parse_results is the merge of the mappings of the services
\* that returned; and a scrape that began leaves its join loop, whatever
\* services fail.
FanOutFaultTolerance ==
    /\ [][\A s \in Services :
            (tpc[s] = "run" /\ tpc'[s] = "dead") =>
                /\ pc' = pc
                /\ ret' = ret
                /\ results' = results
                /\ total_results' = total_results
                /\ service_results'[s] = EmptyDict]_vars
    /\ [][(ret'.val.tag = "raise" /\ ret.val.tag # "raise") =>
            (pc = "join" /\ joined = Len(threads) /\ NoneRunning)]_vars
    /\ [](pc = "attach" =>
            /\ DOMAIN results = UNION {DOMAIN service_results[s] :
                                         s \in {t \in Services : tpc[t] = "done"}}
            /\ \A k \in DOMAIN results :
                  \E s \in Services :
                      /\ tpc[s] = "done"
                      /\ k \in DOMAIN service_results[s]
                      /\ results[k] = service_results[s][k]
            /\ total_results = TotalOffered({t \in Services : tpc[t] = "done"}))
    /\ (pc = "launch") ~> (pc \in {"attach", "idle"})

\* C5 witness: of three started services one failed, and scrape returned the
\* merged results of the other two.
FanOutFaultToleranceWitness ==
    /\ pc = "attach"
    /\ Len(threads) = 3
    /\ Cardinality({s \in Services : tpc[s] = "dead"}) = 1
    /\ \A s \in Services : tpc[s] = "done" => service_results[s] # EmptyDict
    /\ Len(sorted_streams) = 2

\* C6: when _parse_results raises, run ends with the item as it was when run
\* was called: scraped_at, scraped_times and streams are not advanced.
RankerFailureKeepsItem ==
    (pc = "idle" /\ ret.op = "run" /\ ret.val.tag = "raise") =>
        /\ items[cur].scraped_at = before.scraped_at
        /\ items[cur].scraped_times = before.scraped_times
        /\ items[cur].streams = before.streams

\* C6 witness: _parse_results raised in the second run of the Movie, after
\* the services had returned results.
RankerFailureKeepsItemWitness ==
    /\ pc = "idle"
    /\ ret.op = "run"
    /\ ret.val.tag = "raise"
    /\ cur = "movie"
    /\ items[cur].scraped_times = 1
    /\ items[cur].streams # <<>>

\* the backoff table: the interval of the tier of n, in seconds
TierInterval(n) ==
    CASE n \in 0..1 -> 5 * 60
      [] n \in 2..5 -> settings.after_2 * 3600
      [] n \in 6..10 -> settings.after_5 * 3600
      [] n > 10 -> settings.after_10 * 3600

\* the number of tiers of the backoff table n falls in
TierCount(n) ==
    Cardinality({t \in 1..4 :
                   CASE t = 1 -> n \in 0..1
                     [] t = 2 -> n \in 2..5
                     [] t = 3 -> n \in 6..10
                     [] t = 4 -> n > 10})

\* the backoff policy: never scraped, or more than the tier's interval ago
Eligible(item) ==
    \/ item.scraped_at = None
    \/ now - item.scraped_at > TierInterval(item.scraped_times)

\* C7: should_submit is true exactly of the items never scraped or scraped
\* longer ago than the interval of their tier of the backoff table, and every
\* scraped_times falls in exactly one tier.
BackoffTable ==
    \A id \in Ids :
        /\ TierCount(items[id].scraped_times) = 1
        /\ should_submit(items[id]) <=> Eligible(items[id])

\* C7 witness: with after_2 = 2, should_submit was called on the Movie, scraped
\* 3 times, 1h59m after its last scrape, and returned false; that is still so.
BackoffTableWitness ==
    /\ settings.after_2 = 2
    /\ items["movie"].scraped_times = 3
    /\ items["movie"].scraped_at = 0
    /\ now = 7140
    /\ ret = [op |-> "should_submit", item |-> "movie", val |-> RBool(FALSE)]

\* C8: an item that passes should_submit still passes it after any step that
\* leaves its scraped_at alone, whatever time has passed.
BackoffMonotone ==
    [][\A id \in Ids :
          (should_submit(items[id]) /\ items'[id].scraped_at = items[id].scraped_at)
              => should_submit(items[id])']_vars

\* C8 witness: the Movie was scraped by a run, and enough time has passed since
\* for should_submit to be true again.
BackoffMonotoneWitness ==
    /\ items["movie"].scraped_at # None
    /\ items["movie"].scraped_at > 0
    /\ should_submit(items["movie"])
    /\ pc = "idle"

\* the fields of the items run writes
Scraped(its) ==
    [id \in Ids |-> <<its[id].scraped_at, its[id].scraped_times, its[id].streams>>]

\* the caller's calls that only check or traverse
CheckOps ==
    {"should_submit", "can_we_scrape", "yield_incomplete_children", "partial_state"}

\* C9: a call of should_submit, can_we_scrape, yield_incomplete_children or
\* partial_state leaves scraped_at, scraped_times and streams of every item
\* as they are; scraped_at of an item changes only in the step of run that
\* follows scrape's return, run having passed the gate for that item and every
\* thread of the scrape having ended.
ChecksLeaveItems ==
    [][/\ (ret' # ret /\ ret'.op \in CheckOps) => Scraped(items') = Scraped(items)
       /\ \A id \in Ids :
            items'[id].scraped_at # items[id].scraped_at =>
                /\ pc = "attach"
                /\ cur = id
                /\ before.is_released
                /\ Eligible(before)
                /\ NoneRunning
                /\ ret'.op = "run"]_vars

\* C9 witness: after a run has scraped the Movie, partial_state of the Show
\* has returned a frontier.
ChecksLeaveItemsWitness ==
    /\ items["movie"].scraped_at # None
    /\ ret.op = "partial_state"
    /\ ret.item = "show"
    /\ ret.val.tag = "list"
    /\ ret.val.list # <<>>

\* C10: a run call on an item that is not released or is inside its backoff
\* interval starts no thread and leaves the items as they are; while a run is
\* inside scrape, and so whenever a service has been queried, the gate has
\* been evaluated exactly once in this run, on an item released and eligible.
GateOnce ==
    /\ [][(/\ pc = "idle"
           /\ pc' = "launch" \/ ret'.op = "run"
           /\ ~(items[cur'].is_released /\ Eligible(items[cur'])))
          => /\ pc' = "idle"
             /\ items' = items
             /\ \A s \in Services : queried'[s] = 0 /\ tpc'[s] = "new"]_vars
    /\ [](pc # "idle" => gate_evals = 1 /\ before.is_released /\ Eligible(before))
    /\ [](\A s \in Services :
            /\ queried[s] > 0 => pc # "idle"
            /\ queried[s] <= 1)

\* C10 witness: run was called on the Episode that is not released, and
\* returned it.
GateOnceWitness ==
    /\ pc = "idle"
    /\ ret.op = "run"
    /\ ret.item = "e22"
    /\ cur = "e22"
    /\ items["movie"].scraped_times = 1

\* C11: scraped_times of an item never decreases; it changes only in the step
\* of run that follows scrape's return, for the item of that run, and there it
\* grows by exactly 1 while scraped_at becomes the clock reading of that step.
ScrapedTimesMonotone ==
    [][/\ \A id \in Ids :
            /\ items'[id].scraped_times >= items[id].scraped_times
            /\ items'[id].scraped_times # items[id].scraped_times =>
                  (pc = "attach" /\ cur = id)
       /\ (pc = "attach" /\ pc' = "idle") =>
            /\ items'[cur].scraped_times = items[cur].scraped_times + 1
            /\ items'[cur].scraped_at = now]_vars

\* C11 witness: the Movie has been scraped twice, the second time at a later
\* clock reading than the first.
ScrapedTimesMonotoneWitness ==
    /\ pc = "idle"
    /\ ret.op = "run"
    /\ ret.val.tag = "item"
    /\ cur = "movie"
    /\ before.scraped_times = 1
    /\ items[cur].scraped_times = 2
    /\ items[cur].scraped_at = now
    /\ items[cur].scraped_at > before.scraped_at

\* the infohashes of a sequence of streams
Infohashes(streams) == {streams[i].infohash : i \in 1..Len(streams)}

\* the run call of cur has gone through scrape and returned the item
RunCompleted ==
    /\ pc = "idle"
    /\ ret.op = "run"
    /\ ret.val.tag = "item"
    /\ items[cur].scraped_times = before.scraped_times + 1

\* C12: a run whose ranked streams have only infohashes the item already had
\* (as when a second run is handed the same results as the first) leaves the
\* item's streams as they were: the same length, the same infohashes.
MergeIdempotent ==
    (RunCompleted /\ Infohashes(sorted_streams) \subseteq Infohashes(before.streams)) =>
        /\ Len(items[cur].streams) = Len(before.streams)
        /\ Infohashes(items[cur].streams) = Infohashes(before.streams)

\* C12 witness: the second run of the Movie was handed both infohashes the
\* first run had attached, one of them with another raw title.
MergeIdempotentWitness ==
    /\ RunCompleted
    /\ cur = "movie"
    /\ items[cur].scraped_times = 2
    /\ Len(before.streams) = 2
    /\ Infohashes(sorted_streams) = Infohashes(before.streams)
    /\ \E i \in 1..2, j \in 1..2 :
          /\ sorted_streams[i].infohash = before.streams[j].infohash
          /\ sorted_streams[i].raw_title # before.streams[j].raw_title

\* an item that is not Completed, is released and is outside its backoff
Pending(id) ==
    /\ items[id].state # "Completed"
    /\ items[id].is_released
    /\ Eligible(items[id])

\* partial_state applies to the item: it was last PartiallyCompleted and may
\* not be scraped itself
PartialApplies(id) ==
    /\ items[id].last_state = "PartiallyCompleted"
    /\ ~(items[id].is_released /\ Eligible(items[id]))

\* every Episode of Season s is released and incomplete
UniformlyPending(s) ==
    \A e \in Range(episodes(s)) :
        items[e].is_released /\ items[e].state # "Completed"

\* the Show's Seasons and Episodes in the order of the hierarchy
TreeOrder == <<"s1", "e11", "e12", "s2", "e21", "e22">>

\* the places of TreeOrder the sequence f holds, place by place
Places(f) ==
    [i \in 1..Len(f) |-> CHOOSE p \in 1..Len(TreeOrder) : TreeOrder[p] = f[i]]

\* f lists items of TreeOrder, each once, in that order
InTreeOrder(f) ==
    /\ Range(f) \subseteq Range(TreeOrder)
    /\ \A i, j \in 1..Len(f) : i < j => Places(f)[i] < Places(f)[j]

\* C13: for a Show last PartiallyCompleted that may not be scraped itself,
\* partial_state returns a list in the order of the hierarchy in which a
\* Season appears exactly when it is pending and every Episode of it is
\* released and incomplete, and an Episode appears exactly when it is released
\* and incomplete and its Season is pending but not uniformly so.
PartialFrontierCoarsening ==
    PartialApplies("show") =>
        LET r == partial_state("show") IN
        /\ r.tag = "list"
        /\ InTreeOrder(r.list)
        /\ \A s \in Range(seasons("show")) :
              /\ s \in Range(r.list) <=> (Pending(s) /\ UniformlyPending(s))
              /\ \A e \in Range(episodes(s)) :
                    e \in Range(r.list) <=>
                        /\ Pending(s)
                        /\ ~UniformlyPending(s)
                        /\ items[e].is_released
                        /\ items[e].state # "Completed"

\* C13 witness: partial_state of the Show returned Season s1, every Episode
\* of which is pending, and then the one incomplete Episode of the
\* half-completed Season s2.
PartialFrontierCoarseningWitness ==
    /\ PartialApplies("show")
    /\ items["e21"].state = "Completed"
    /\ items["e22"].state # "Completed"
    /\ ret = [op |-> "partial_state", item |-> "show",
              val |-> RList(<<"s1", "e22">>)]

\* C14: every Episode in a list partial_state returns for a Show or a Season
\* is released and outside its own backoff interval.
FrontierEligible ==
    \A id \in {"show", "s1", "s2"} :
        LET r == partial_state(id) IN
        r.tag = "list" =>
            \A e \in Range(r.list) :
                TypeOf(e) = "Episode" =>
                    (items[e].is_released /\ Eligible(items[e]))

\* C15: yield_incomplete_children returns, for a Season, exactly its pending
\* Episodes in the Season's order; for a Show, exactly its pending Seasons in
\* the Show's order; for an Episode or a Movie, None.
IncompleteChildrenExact ==
    \A id \in Ids :
        LET r == yield_incomplete_children(id) IN
        CASE TypeOf(id) = "Season" ->
               r.tag = "list" /\ r.list = SelectSeq(episodes(id), Pending)
          [] TypeOf(id) = "Show" ->
               r.tag = "list" /\ r.list = SelectSeq(seasons(id), Pending)
          [] OTHER -> r.tag = "None" /\ r.list = <<>>

\* C15 witness: yield_incomplete_children of Season s2 returned its second
\* Episode alone, the first being released and incomplete but inside its
\* backoff interval.
IncompleteChildrenExactWitness ==
    /\ items["e21"].state # "Completed"
    /\ items["e21"].is_released
    /\ ~Eligible(items["e21"])
    /\ ret = [op |-> "yield_incomplete_children", item |-> "s2",
              val |-> RList(<<"e22">>)]

\* the service is initialized
IsInitialized(s) == initialized[s]

\* C16: in a scrape no service is queried twice; a service that is not
\* initialized gets no thread, is never queried, returns nothing and has no
\* entry in results; and once the launch loop is over, the threads are those
\* of the initialized services, one each, in the order of self.services, each
\* of these services having been queried exactly once.
OneWorkerPerBackend ==
    /\ \A s \in Services :
          /\ queried[s] <= 1
          /\ ~initialized[s] =>
                /\ queried[s] = 0
                /\ tpc[s] = "new"
                /\ service_results[s] = EmptyDict
                /\ \A k \in DOMAIN results : results[k] # s
    /\ pc \in {"join", "attach"} =>
          /\ threads = SelectSeq(ServiceNames, IsInitialized)
          /\ \A s \in Services : initialized[s] => queried[s] = 1

\* C16 witness: of three services one is not initialized; the two others were
\* each queried once, their threads have ended and results is not empty.
OneWorkerPerBackendWitness ==
    /\ pc = "attach"
    /\ ~initialized["Torrentio"]
    /\ threads = <<"Annatar", "Knightcrawler">>
    /\ queried = [s \in Services |-> IF s = "Torrentio" THEN 0 ELSE 1]
    /\ tpc["Annatar"] = "done"
    /\ tpc["Knightcrawler"] = "done"
    /\ results # EmptyDict

\* C17: until scrape returns, results changes only in the update of a thread
\* inside the with block,
\* which gives every infohash of that thread's service the payload of that
\* service, whoever wrote it before, and leaves the other entries alone: the
\* payload left under an infohash is that of the last thread to update. After
\* the join, whatever the interleaving was, the infohashes of results and
\* total_results are fixed by what the services returned, and each payload is
\* that of a service that returned the infohash.
LastWriterWins ==
    /\ [][(results' # results /\ pc' # "idle") =>
            \E s \in Services :
                /\ tpc[s] = "update"
                /\ tpc'[s] # "update"
                /\ results_lock = s
                /\ DOMAIN results' = DOMAIN results \cup DOMAIN service_results[s]
                /\ \A k \in DOMAIN service_results[s] :
                      results'[k] = service_results[s][k]
                /\ \A k \in DOMAIN results \ DOMAIN service_results[s] :
                      results'[k] = results[k]]_vars
    /\ [][(tpc' # tpc /\ \E s \in Services : tpc[s] = "update") =>
            \A s \in Services :
                (tpc[s] = "update" /\ tpc'[s] # "update") =>
                    \A k \in DOMAIN service_results[s] :
                        results'[k] = service_results[s][k]]_vars
    /\ [](pc = "attach" =>
            /\ DOMAIN results = Offered
            /\ total_results = TotalOffered(Services)
            /\ \A k \in DOMAIN results :
                  \E s \in Services :
                      /\ tpc[s] = "done"
                      /\ k \in DOMAIN service_results[s]
                      /\ results[k] = service_results[s][k])

\* C17 witness: Annatar and Torrentio both returned "X", with different
\* payloads; after the join results holds Annatar's, whose thread was started
\* first.
LastWriterWinsWitness ==
    /\ pc = "attach"
    /\ tpc["Annatar"] = "done"
    /\ tpc["Torrentio"] = "done"
    /\ "X" \in DOMAIN service_results["Annatar"]
    /\ "X" \in DOMAIN service_results["Torrentio"]
    /\ service_results["Annatar"]["X"] # service_results["Torrentio"]["X"]
    /\ results["X"] = service_results["Annatar"]["X"]

\* C18: a scrape that began ends, given that every started thread runs on,
\* every service.run returns or raises and the calling thread runs on: run
\* returns to its caller, yielding the item and nothing else unless
\* _parse_results raised. While the service.run of some thread has not
\* returned, the calling thread stays in scrape's loops, run returns nothing
\* and no item's scraped_at, scraped_times or streams change.
SubmitTerminates ==
    /\ (pc = "launch") ~>
          (/\ pc = "idle"
           /\ ret.op = "run"
           /\ ret.item = cur
           /\ ret.val.tag \in {"item", "raise"}
           /\ ret.val.tag = "item" => ret.val.list = <<cur>>)
    /\ (pc = "attach") ~> (pc = "idle" /\ ret.val.tag = "item" /\ ret.val.list = <<cur>>)
    /\ [][(\E s \in Services : tpc[s] = "run") =>
            /\ pc' \in {"launch", "join"}
            /\ ret' = ret
            /\ items' = items]_vars

\* C18 witness: all three services were queried, time passed meanwhile, and
\* run has yielded the Movie, scraped a third time.
SubmitTerminatesWitness ==
    /\ \A s \in Services : initialized[s]
    /\ pc = "idle"
    /\ ret.op = "run"
    /\ ret.val.tag = "item"
    /\ ret.val.list = <<"movie">>
    /\ items["movie"].scraped_times = 3
    /\ items["movie"].scraped_at = 1

\* C19 as stated: any two consecutive scrapes of an item are separated by the
\* backoff interval, so that when a run that has scraped the item ends, the
\* item may not be scraped again at that instant.
FanOutsSeparated ==
    [][(pc \in {"join", "attach"} /\ pc' = "idle") =>
          ~(items'[cur].is_released /\ Eligible(items'[cur]))]_vars

\* C19, amended: when a run that has scraped the item ends without an
\* exception of _parse_results, it has set scraped_at to the clock reading,
\* also when no stream was found, and the item may not be scraped again at
\* that instant; and run enters scrape only for an item never scraped or
\* scraped longer ago than the interval of the tier of its scraped_times.
BackoffSeparation ==
    /\ [][(pc = "attach" /\ pc' = "idle") =>
            /\ items'[cur].scraped_at = now
            /\ ~Eligible(items'[cur])
            /\ sorted_streams = <<>> =>
                  /\ items'[cur].streams = items[cur].streams
                  /\ items'[cur].scraped_times # items[cur].scraped_times]_vars
    /\ [][(pc = "idle" /\ pc' = "launch") =>
            \/ items[cur'].scraped_at = None
            \/ now - items[cur'].scraped_at >
                  TierInterval(items[cur'].scraped_times)]_vars

\* C19 witness: the first scrape of the Movie found no stream; run has
\* entered scrape for it a second time, more than 300 seconds later.
BackoffSeparationWitness ==
    /\ pc = "launch"
    /\ cur = "movie"
    /\ before.scraped_times = 1
    /\ before.scraped_at # None
    /\ before.streams = <<>>
    /\ now - before.scraped_at > 300

\* s is a prefix of t
IsPrefix(s, t) == Len(s) <= Len(t) /\ SubSeq(t, 1, Len(s)) = s

\* the ranked stream was not on the item when run was called
IsNew(stream) == stream.infohash \notin Infohashes(before.streams)

\* C20: no step removes, replaces or reorders a stream of an item: the
\* streams before the step are a prefix of those after it; and after a run
\* that scraped the item, its streams are those it had followed by the ranked
\* streams it did not have, in the order _parse_results gave them.
StreamsAppendOnly ==
    /\ [][\A id \in Ids : IsPrefix(items[id].streams, items'[id].streams)]_vars
    /\ [](RunCompleted =>
            items[cur].streams = before.streams \o SelectSeq(sorted_streams, IsNew))

\* C20 witness: the Movie had one stream; the second run ranked a new stream
\* before the known one, and the new one was appended after the old.
StreamsAppendOnlyWitness ==
    /\ RunCompleted
    /\ cur = "movie"
    /\ Len(before.streams) = 1
    /\ Len(sorted_streams) = 2
    /\ sorted_streams[2].infohash = before.streams[1].infohash
    /\ Len(items[cur].streams) = 2
    /\ items[cur].streams[2] = sorted_streams[1]

====
